---- MODULE Spec2Model ----
(***************************************************************************)
(* Model of cmake/embed_bin.py: a build-time helper that reads a binary     *)
(* file and writes a C++ source file declaring the bytes as an array plus   *)
(* a length constant.                                                       *)
(*                                                                          *)
(* Text is modelled as a sequence of one-character strings, a binary file   *)
(* as a sequence of integers 0..255.  An invocation is a process p; its     *)
(* statements are the actions below.  The file system, the buffering of the *)
(* output stream and I/O faults are the environment.                        *)
(***************************************************************************)
EXTENDS Integers, Sequences, FiniteSets, TLC

(* ------------------------------ bounds -------------------------------- *)
\* longest ramp-shaped input of the fault-free runs (two full rows and more)
MaxLen == 25
\* longest input of the runs with flushes and faults
MaxSmall == 2
\* how many times an invocation is run on the same arguments
MaxRuns == 2

(* --------------------------- text constants --------------------------- *)
Digits == <<"0", "1", "2", "3", "4", "5", "6", "7", "8", "9">>

\* '#include <cstddef>\n'
Preamble == <<"#", "i", "n", "c", "l", "u", "d", "e", " ", "<", "c", "s", "t", "d", "d", "e", "f", ">", "\n">>

\* 'extern const unsigned char '
ArrayHead == <<"e", "x", "t", "e", "r", "n", " ", "c", "o", "n", "s", "t", " ", "u", "n", "s", "i", "g", "n", "e", "d", " ", "c", "h", "a", "r", " ">>

\* '[] = {\n'
ArrayOpen == <<"[", "]", " ", "=", " ", "{", "\n">>

\* '    '
Indent == <<" ", " ", " ", " ">>

\* '\n};\n'
Closing == <<"\n", "}", ";", "\n">>

\* 'extern const std::size_t '
SizeHead == <<"e", "x", "t", "e", "r", "n", " ", "c", "o", "n", "s", "t", " ", "s", "t", "d", ":", ":", "s", "i", "z", "e", "_", "t", " ">>

\* '_len'
LenSuffix == <<"_", "l", "e", "n">>

\* "Usage: embed_bin.py <input> <varname> <output>"
Usage == "Usage: embed_bin.py <input> <varname> <output>"

\* the symbol names used on the command line, as character sequences
Chars == [foo |-> <<"f", "o", "o">>, b |-> <<"b">>]

Names == DOMAIN Chars

(* --------------------------- pure functions --------------------------- *)
\* a decimal rendering that drops the digit of zero
RECURSIVE StrNoZero(_)
StrNoZero(n) == IF n = 0 THEN <<>>
                ELSE StrNoZero(n \div 10) \o <<Digits[(n % 10) + 1]>>

\* str(b) and '%d' % n: the decimal rendering of a natural number
RECURSIVE Str(_)
Str(n) == IF n < 10 THEN <<Digits[n + 1]>>
          ELSE Str(n \div 10) \o <<Digits[(n % 10) + 1]>>

\* an iteration that leaves out the comma at the end of a row
IterTextNoRowComma(data, i) ==
    (IF i % 12 = 0 THEN Indent ELSE <<>>)
    \o Str(data[i + 1])
    \o (IF i # Len(data) - 1 /\ (i % 12) # 11 THEN <<",">> ELSE <<>>)
    \o (IF (i % 12) # 11 THEN <<" ">> ELSE <<>>)
    \o (IF (i % 12) = 11 THEN <<"\n">> ELSE <<>>)

\* an iteration that ends the rows after the 12th value and every 11 after it
IterTextShortRows(data, i) ==
    (IF i % 12 = 0 THEN Indent ELSE <<>>)
    \o Str(data[i + 1])
    \o (IF i # Len(data) - 1 THEN <<",">> ELSE <<>>)
    \o (IF (i % 11) # 0 \/ i = 0 THEN <<" ">> ELSE <<>>)
    \o (IF (i % 11) = 0 /\ i # 0 THEN <<"\n">> ELSE <<>>)

\* what one iteration of the loop writes for index i (0-based, as in the code)
IterText(data, i) ==
    (IF i % 12 = 0 THEN Indent ELSE <<>>)
    \o Str(data[i + 1])
    \o (IF i # Len(data) - 1 THEN <<",">> ELSE <<>>)
    \o (IF (i % 12) # 11 THEN <<" ">> ELSE <<>>)
    \o (IF (i % 12) = 11 THEN <<"\n">> ELSE <<>>)

\* 'extern const unsigned char %s[] = {\n' % var_name
ArrayDecl(name) == ArrayHead \o Chars[name] \o ArrayOpen

\* size_var = var_name + '_len'
size_var(name) == Chars[name] \o LenSuffix

\* a size declaration that counts one byte too many
SizeDeclOffByOne(name, n) ==
    SizeHead \o size_var(name) \o <<" ", "=", " ">> \o Str(n + 1) \o <<";", "\n">>

\* 'extern const std::size_t %s = %d;\n' % (size_var, len(data))
SizeDecl(name, n) == SizeHead \o size_var(name) \o <<" ", "=", " ">> \o Str(n) \o <<";", "\n">>

\* what the first k iterations of the loop write
RECURSIVE Body(_, _)
Body(data, k) == IF k = 0 THEN <<>> ELSE Body(data, k - 1) \o IterText(data, k - 1)

\* everything the output block writes, in order
Generated(data, name) ==
    Preamble \o ArrayDecl(name) \o Body(data, Len(data)) \o Closing \o SizeDecl(name, Len(data))

(* ------------------------------- inputs ------------------------------- *)
\* n consecutive byte values starting at s, wrapping at 256
Ramp(s, n) == [i \in 1..n |-> (s + i - 1) % 256]

\* inputs of the fault-free runs: every single byte, and ramps of every length
Inputs == {<<b>> : b \in 0..255} \cup {Ramp(s, n) : s \in {0, 95, 250}, n \in 0..MaxLen}

\* inputs of the runs with flushes and faults
SmallInputs == {Ramp(s, n) : s \in {0, 200}, n \in 0..MaxSmall}

\* the invocations that may run
Procs == {1, 2}

Paths == {"in.bin", "in2.bin", "out.cpp", "out2.cpp"}

\* a file of the file system: present or not, and its content
File(c) == [exists |-> TRUE, content |-> c]

NoFile == [exists |-> FALSE, content |-> <<>>]

\* what the output path may hold before a run: nothing, an empty file, or a
\* text longer than anything a run with a small input generates
OldFiles == {NoFile, File(<<>>), File(Generated(Ramp(7, MaxSmall + 3), "foo") \o <<"x">>)}

(* -------------------------------- state ------------------------------- *)
VARIABLES
    procs,      \* the invocations
    argv,       \* argv[p]: sys.argv of invocation p, script name first
    fs,         \* the file system: path -> file
    noaccess,   \* the paths that cannot be opened (permission denied)
    before,     \* the file system as it was when the current run started
    pc,         \* pc[p]: the statement invocation p executes next
    data,       \* data[p]: the bytes read from the input
    idx,        \* idx[p]: the loop index i
    buf,        \* buf[p]: text written to the output stream, not yet in the file
    pos,        \* pos[p]: file offset of the output handle
    inOpen,     \* inOpen[p]: the input handle is open
    outOpen,    \* outOpen[p]: the output handle is open
    status,     \* status[p]: exit code, -1 while running
    stderr,     \* stderr[p]: lines written to the error stream
    runs,       \* runs[p]: how many times p was started
    overlapped  \* two invocations had the same output path open at once

vars == <<procs, argv, fs, noaccess, before, pc, data, idx, buf, pos, inOpen,
          outOpen, status, stderr, runs, overlapped>>

in_path(p) == argv[p][2]

var_name(p) == argv[p][3]

out_path(p) == argv[p][4]

\* the zero byte that fills a hole left by a write beyond the end of a file
NUL == "NUL"

\* a write in append mode: the chunk goes to the end of the file
WriteAtEnd(content, at, chunk) == content \o chunk

\* the content of a file after chunk is written at offset at
WriteAt(content, at, chunk) ==
    LET padded == IF at > Len(content)
                  THEN content \o [i \in 1..(at - Len(content)) |-> NUL]
                  ELSE content
    IN SubSeq(padded, 1, at) \o chunk \o SubSeq(padded, at + Len(chunk) + 1, Len(padded))

\* f.write(text) on the output stream: the text joins the stream's buffer
Write(p, text, next) ==
    /\ buf' = [buf EXCEPT ![p] = @ \o text]
    /\ pc' = [pc EXCEPT ![p] = next]

\* an uncaught exception or sys.exit ends the invocation
Exit(p, code, line) ==
    /\ pc' = [pc EXCEPT ![p] = "exited"]
    /\ status' = [status EXCEPT ![p] = code]
    /\ stderr' = [stderr EXCEPT ![p] = @ \o <<line>>]

(* ------------------------------- actions ------------------------------ *)
\* an argument check that lets two positional arguments pass
CheckArgsOffByOne(p) ==
    /\ p \in procs
    /\ pc[p] = "args"
    /\ IF Len(argv[p]) < 3
       THEN Exit(p, 2, Usage)
       ELSE /\ pc' = [pc EXCEPT ![p] = "open_in"]
            /\ UNCHANGED <<status, stderr>>
    /\ UNCHANGED <<procs, argv, fs, noaccess, before, data, idx, buf, pos, inOpen,
                   outOpen, runs, overlapped>>

\* if len(sys.argv) < 4: print usage, sys.exit(2)
CheckArgs(p) ==
    /\ p \in procs
    /\ pc[p] = "args"
    /\ IF Len(argv[p]) < 4
       THEN Exit(p, 2, Usage)
       ELSE /\ pc' = [pc EXCEPT ![p] = "open_in"]
            /\ UNCHANGED <<status, stderr>>
    /\ UNCHANGED <<procs, argv, fs, noaccess, before, data, idx, buf, pos, inOpen,
                   outOpen, runs, overlapped>>

\* a script that creates the output before it opens the input
OpenInputAfterOutput(p) ==
    /\ p \in procs
    /\ pc[p] = "open_in"
    /\ fs' = [fs EXCEPT ![out_path(p)] = File(<<>>)]
    /\ IF fs[in_path(p)].exists /\ in_path(p) \notin noaccess
       THEN /\ inOpen' = [inOpen EXCEPT ![p] = TRUE]
            /\ pc' = [pc EXCEPT ![p] = "read"]
            /\ UNCHANGED <<status, stderr>>
       ELSE /\ Exit(p, 1, "OSError")
            /\ UNCHANGED inOpen
    /\ UNCHANGED <<procs, argv, noaccess, before, data, idx, buf, pos,
                   outOpen, runs, overlapped>>

\* with open(in_path, 'rb') as f
OpenInput(p) ==
    /\ p \in procs
    /\ pc[p] = "open_in"
    /\ IF fs[in_path(p)].exists /\ in_path(p) \notin noaccess
       THEN /\ inOpen' = [inOpen EXCEPT ![p] = TRUE]
            /\ pc' = [pc EXCEPT ![p] = "read"]
            /\ UNCHANGED <<status, stderr>>
       ELSE /\ Exit(p, 1, "OSError")
            /\ UNCHANGED inOpen
    /\ UNCHANGED <<procs, argv, fs, noaccess, before, data, idx, buf, pos,
                   outOpen, runs, overlapped>>

\* data = f.read()
Read(p) ==
    /\ p \in procs
    /\ pc[p] = "read"
    /\ data' = [data EXCEPT ![p] = fs[in_path(p)].content]
    /\ pc' = [pc EXCEPT ![p] = "close_in"]
    /\ UNCHANGED <<procs, argv, fs, noaccess, before, idx, buf, pos, inOpen,
                   outOpen, status, stderr, runs, overlapped>>

\* f.read() raises: the with block closes the input, the exception ends the run
ReadFail(p) ==
    /\ p \in procs
    /\ pc[p] = "read"
    /\ inOpen' = [inOpen EXCEPT ![p] = FALSE]
    /\ Exit(p, 1, "OSError")
    /\ UNCHANGED <<procs, argv, fs, noaccess, before, data, idx, buf, pos,
                   outOpen, runs, overlapped>>

\* an input handle that is never closed
CloseInputLeak(p) ==
    /\ p \in procs
    /\ pc[p] = "close_in"
    /\ pc' = [pc EXCEPT ![p] = "open_out"]
    /\ UNCHANGED <<procs, argv, fs, noaccess, before, data, idx, buf, pos, inOpen,
                   outOpen, status, stderr, runs, overlapped>>

\* leaving the first with block closes the input
CloseInput(p) ==
    /\ p \in procs
    /\ pc[p] = "close_in"
    /\ inOpen' = [inOpen EXCEPT ![p] = FALSE]
    /\ pc' = [pc EXCEPT ![p] = "open_out"]
    /\ UNCHANGED <<procs, argv, fs, noaccess, before, data, idx, buf, pos,
                   outOpen, status, stderr, runs, overlapped>>

\* an output opened without truncation
OpenOutputNoTrunc(p) ==
    /\ p \in procs
    /\ pc[p] = "open_out"
    /\ IF out_path(p) \notin noaccess
       THEN /\ fs' = [fs EXCEPT ![out_path(p)] = File(@.content)]
            /\ outOpen' = [outOpen EXCEPT ![p] = TRUE]
            /\ pos' = [pos EXCEPT ![p] = 0]
            /\ buf' = [buf EXCEPT ![p] = <<>>]
            /\ idx' = [idx EXCEPT ![p] = 0]
            /\ pc' = [pc EXCEPT ![p] = "preamble"]
            /\ overlapped' = (overlapped \/ \E q \in procs \ {p} :
                                 outOpen[q] /\ out_path(q) = out_path(p))
            /\ UNCHANGED <<status, stderr>>
       ELSE /\ Exit(p, 1, "OSError")
            /\ UNCHANGED <<fs, outOpen, pos, buf, idx, overlapped>>
    /\ UNCHANGED <<procs, argv, noaccess, before, data, inOpen, runs>>

\* with open(out_path, 'w') as f: creates the file or truncates it
OpenOutput(p) ==
    /\ p \in procs
    /\ pc[p] = "open_out"
    /\ IF out_path(p) \notin noaccess
       THEN /\ fs' = [fs EXCEPT ![out_path(p)] = File(<<>>)]
            /\ outOpen' = [outOpen EXCEPT ![p] = TRUE]
            /\ pos' = [pos EXCEPT ![p] = 0]
            /\ buf' = [buf EXCEPT ![p] = <<>>]
            /\ idx' = [idx EXCEPT ![p] = 0]
            /\ pc' = [pc EXCEPT ![p] = "preamble"]
            /\ overlapped' = (overlapped \/ \E q \in procs \ {p} :
                                 outOpen[q] /\ out_path(q) = out_path(p))
            /\ UNCHANGED <<status, stderr>>
       ELSE /\ Exit(p, 1, "OSError")
            /\ UNCHANGED <<fs, outOpen, pos, buf, idx, overlapped>>
    /\ UNCHANGED <<procs, argv, noaccess, before, data, inOpen, runs>>

\* f.write('#include <cstddef>\n')
WritePreamble(p) ==
    /\ p \in procs
    /\ pc[p] = "preamble"
    /\ Write(p, Preamble, "decl")
    /\ UNCHANGED <<procs, argv, fs, noaccess, before, data, idx, pos, inOpen,
                   outOpen, status, stderr, runs, overlapped>>

\* f.write('extern const unsigned char %s[] = {\n' % var_name)
WriteDecl(p) ==
    /\ p \in procs
    /\ pc[p] = "decl"
    /\ Write(p, ArrayDecl(var_name(p)), "loop")
    /\ UNCHANGED <<procs, argv, fs, noaccess, before, data, idx, pos, inOpen,
                   outOpen, status, stderr, runs, overlapped>>

\* one iteration of: for i, b in enumerate(data)
LoopIter(p) ==
    /\ p \in procs
    /\ pc[p] = "loop"
    /\ idx[p] < Len(data[p])
    /\ Write(p, IterText(data[p], idx[p]), "loop")
    /\ idx' = [idx EXCEPT ![p] = @ + 1]
    /\ UNCHANGED <<procs, argv, fs, noaccess, before, data, pos, inOpen,
                   outOpen, status, stderr, runs, overlapped>>

\* the loop is exhausted: f.write('\n};\n')
WriteClosing(p) ==
    /\ p \in procs
    /\ pc[p] = "loop"
    /\ idx[p] >= Len(data[p])
    /\ Write(p, Closing, "size")
    /\ UNCHANGED <<procs, argv, fs, noaccess, before, data, idx, pos, inOpen,
                   outOpen, status, stderr, runs, overlapped>>

\* f.write('extern const std::size_t %s = %d;\n' % (size_var, len(data)))
WriteSize(p) ==
    /\ p \in procs
    /\ pc[p] = "size"
    /\ Write(p, SizeDecl(var_name(p), Len(data[p])), "close_out")
    /\ UNCHANGED <<procs, argv, fs, noaccess, before, data, idx, pos, inOpen,
                   outOpen, status, stderr, runs, overlapped>>

\* a drain that does not advance the file offset
DrainAtStart(p) ==
    /\ fs' = [fs EXCEPT ![out_path(p)] = File(WriteAt(@.content, pos[p], buf[p]))]
    /\ pos' = pos
    /\ buf' = [buf EXCEPT ![p] = <<>>]

\* the stream's buffer is written to the file at the handle's offset
Drain(p) ==
    /\ fs' = [fs EXCEPT ![out_path(p)] = File(WriteAt(@.content, pos[p], buf[p]))]
    /\ pos' = [pos EXCEPT ![p] = @ + Len(buf[p])]
    /\ buf' = [buf EXCEPT ![p] = <<>>]

\* the stream drains its buffer while the block is still running (buffer full)
Flush(p) ==
    /\ p \in procs
    /\ outOpen[p]
    /\ buf[p] # <<>>
    /\ Drain(p)
    /\ UNCHANGED <<procs, argv, noaccess, before, pc, data, idx, inOpen,
                   outOpen, status, stderr, runs, overlapped>>

\* leaving the second with block: the buffer is drained, the output closed,
\* and the script ends with exit code 0
CloseOutput(p) ==
    /\ p \in procs
    /\ pc[p] = "close_out"
    /\ Drain(p)
    /\ outOpen' = [outOpen EXCEPT ![p] = FALSE]
    /\ pc' = [pc EXCEPT ![p] = "exited"]
    /\ status' = [status EXCEPT ![p] = 0]
    /\ UNCHANGED <<procs, argv, noaccess, before, data, idx, inOpen, stderr,
                   runs, overlapped>>

\* a write to the file fails after k characters of the buffer: the exception
\* leaves the with block, which closes the output, and ends the run
WriteFail(p) ==
    /\ p \in procs
    /\ outOpen[p]
    /\ buf[p] # <<>>
    /\ \E k \in 0..(Len(buf[p]) - 1) :
          /\ fs' = [fs EXCEPT ![out_path(p)] =
                       File(WriteAt(@.content, pos[p], SubSeq(buf[p], 1, k)))]
          /\ pos' = [pos EXCEPT ![p] = @ + k]
    /\ buf' = [buf EXCEPT ![p] = <<>>]
    /\ outOpen' = [outOpen EXCEPT ![p] = FALSE]
    /\ Exit(p, 1, "OSError")
    /\ UNCHANGED <<procs, argv, noaccess, before, data, idx, inOpen, runs,
                   overlapped>>

\* the build runs the same command again
Rerun(p) ==
    /\ p \in procs
    /\ pc[p] = "exited"
    /\ runs[p] < MaxRuns
    /\ runs' = [runs EXCEPT ![p] = @ + 1]
    /\ before' = fs
    /\ pc' = [pc EXCEPT ![p] = "args"]
    /\ data' = [data EXCEPT ![p] = <<>>]
    /\ idx' = [idx EXCEPT ![p] = 0]
    /\ buf' = [buf EXCEPT ![p] = <<>>]
    /\ pos' = [pos EXCEPT ![p] = 0]
    /\ status' = [status EXCEPT ![p] = -1]
    /\ stderr' = [stderr EXCEPT ![p] = <<>>]
    /\ UNCHANGED <<procs, argv, fs, noaccess, inOpen, outOpen, overlapped>>

(* --------------------------- specifications --------------------------- *)
\* the state of freshly started invocations P on file system f
Start(P, a, f, na) ==
    /\ procs = P
    /\ argv = a
    /\ fs = f
    /\ noaccess = na
    /\ before = f
    /\ pc = [p \in P |-> "args"]
    /\ data = [p \in P |-> <<>>]
    /\ idx = [p \in P |-> 0]
    /\ buf = [p \in P |-> <<>>]
    /\ pos = [p \in P |-> 0]
    /\ inOpen = [p \in P |-> FALSE]
    /\ outOpen = [p \in P |-> FALSE]
    /\ status = [p \in P |-> -1]
    /\ stderr = [p \in P |-> <<>>]
    /\ runs = [p \in P |-> 1]
    /\ overlapped = FALSE

\* sys.argv with 0 to 4 positional arguments
ArgvOf(in, name, out, n) == SubSeq(<<"embed_bin.py", in, name, out, "extra">>, 1, n + 1)

\* one invocation, any arguments, any earlier output file, early flushes,
\* I/O faults and reruns
Init ==
    \E d \in SmallInputs, present \in BOOLEAN, old \in OldFiles,
       na \in SUBSET {"in.bin", "out.cpp"}, name \in Names, n \in 0..4 :
        Start({1},
              [p \in {1} |-> ArgvOf("in.bin", name, "out.cpp", n)],
              [x \in Paths |-> IF x = "in.bin" THEN (IF present THEN File(d) ELSE NoFile)
                               ELSE IF x = "out.cpp" THEN old ELSE NoFile],
              na)

\* the statements of the script
Step ==
    \/ \E p \in Procs : CheckArgs(p)
    \/ \E p \in Procs : OpenInput(p)
    \/ \E p \in Procs : Read(p)
    \/ \E p \in Procs : CloseInput(p)
    \/ \E p \in Procs : OpenOutput(p)
    \/ \E p \in Procs : WritePreamble(p)
    \/ \E p \in Procs : WriteDecl(p)
    \/ \E p \in Procs : LoopIter(p)
    \/ \E p \in Procs : WriteClosing(p)
    \/ \E p \in Procs : WriteSize(p)
    \/ \E p \in Procs : CloseOutput(p)

Next ==
    \/ Step
    \/ \E p \in Procs : Flush(p)
    \/ \E p \in Procs : ReadFail(p)
    \/ \E p \in Procs : WriteFail(p)
    \/ \E p \in Procs : Rerun(p)

Spec == Init /\ [][Next]_vars

\* one fault-free invocation whose output is written when the block is left
InitRun ==
    \E d \in Inputs, name \in Names :
        Start({1},
              [p \in {1} |-> ArgvOf("in.bin", name, "out.cpp", 3)],
              [x \in Paths |-> IF x = "in.bin" THEN File(d) ELSE NoFile],
              {})

NextRun == Step

SpecRun == InitRun /\ [][NextRun]_vars

\* two fault-free invocations with different inputs, interleaved
InitConc ==
    \E d1 \in SmallInputs, d2 \in SmallInputs, n2 \in Names,
       out2 \in {"out.cpp", "out2.cpp"}, old \in OldFiles \ {File(<<>>)} :
        /\ d1 # d2
        /\ Start({1, 2},
                 [p \in {1, 2} |-> IF p = 1 THEN ArgvOf("in.bin", "foo", "out.cpp", 3)
                                   ELSE ArgvOf("in2.bin", n2, out2, 3)],
                 [x \in Paths |-> IF x = "in.bin" THEN File(d1)
                                  ELSE IF x = "in2.bin" THEN File(d2)
                                  ELSE IF x = "out.cpp" THEN old ELSE NoFile],
                 {})

NextConc == Step \/ \E p \in Procs : Flush(p)

SpecConc == InitConc /\ [][NextConc]_vars

(* ---------------------- reading a generated text ---------------------- *)
Whitespace == {" ", "\n"}

\* the index of the first c in s, 0 when there is none
FirstIdx(s, c) ==
    IF \E i \in 1..Len(s) : s[i] = c
    THEN CHOOSE i \in 1..Len(s) : s[i] = c /\ \A j \in 1..(i - 1) : s[j] # c
    ELSE 0

\* the pieces of s between the separators c
RECURSIVE Split(_, _)
Split(s, c) ==
    LET i == FirstIdx(s, c)
    IN IF i = 0 THEN <<s>>
       ELSE <<SubSeq(s, 1, i - 1)>> \o Split(SubSeq(s, i + 1, Len(s)), c)

\* the lines of a text, without their newlines
Lines(text) ==
    LET ps == Split(text, "\n")
    IN IF ps[Len(ps)] = <<>> THEN SubSeq(ps, 1, Len(ps) - 1) ELSE ps

\* s without its leading and trailing whitespace
RECURSIVE Strip(_)
Strip(s) ==
    IF s = <<>> THEN s
    ELSE IF s[1] \in Whitespace THEN Strip(SubSeq(s, 2, Len(s)))
    ELSE IF s[Len(s)] \in Whitespace THEN Strip(SubSeq(s, 1, Len(s) - 1))
    ELSE s

IsNumber(s) == s # <<>> /\ \A i \in 1..Len(s) : \E d \in 1..10 : Digits[d] = s[i]

DigitVal(c) == (CHOOSE d \in 1..10 : Digits[d] = c) - 1

\* the number a decimal literal denotes
RECURSIVE ParseInt(_)
ParseInt(s) ==
    IF Len(s) = 1 THEN DigitVal(s[1])
    ELSE 10 * ParseInt(SubSeq(s, 1, Len(s) - 1)) + DigitVal(s[Len(s)])

NonEmpty(s) == s # <<>>

\* the values of a comma-separated list of decimal literals; -1 for a piece
\* that is not a decimal literal
ParseValues(s) ==
    LET pieces == Split(s, ",")
        items == SelectSeq([i \in 1..Len(pieces) |-> Strip(pieces[i])], NonEmpty)
    IN [i \in 1..Len(items) |-> IF IsNumber(items[i]) THEN ParseInt(items[i]) ELSE -1]

\* the text between the first '{' and the first '};' after it
ArrayInit(text) ==
    LET i == FirstIdx(text, "{")
        ends == {j \in (i + 1)..(Len(text) - 1) : text[j] = "}" /\ text[j + 1] = ";"}
    IN IF i = 0 \/ ends = {} THEN <<"?">>
       ELSE SubSeq(text, i + 1, (CHOOSE j \in ends : \A k \in ends : j <= k) - 1)

\* s starts with pre
StartsWith(s, pre) == Len(pre) <= Len(s) /\ SubSeq(s, 1, Len(pre)) = pre

\* the lines of a text that are size declarations
SizeLines(text) == SelectSeq(Lines(text), LAMBDA l : StartsWith(l, SizeHead))

\* the words of a size declaration after 'extern const std::size_t '
SizeWords(line) == Split(SubSeq(line, Len(SizeHead) + 1, Len(line)), " ")

\* the lines between the opening-brace line and the '};' line
InitLines(text) ==
    LET ls == Lines(text)
        open == CHOOSE i \in 1..Len(ls) : ls[i] # <<>> /\ ls[i][Len(ls[i])] = "{"
        close == CHOOSE j \in 1..Len(ls) : ls[j] = <<"}", ";">>
    IN SubSeq(ls, open + 1, close - 1)

\* the lines of initializer values
ValueLines(text) == SelectSeq(InitLines(text), LAMBDA l : Strip(l) # <<>>)

Ceil12(n) == (n + 11) \div 12

Min(a, b) == IF a < b THEN a ELSE b

\* the input of invocation p, the text it is to generate, and the output file
Input(p) == fs[in_path(p)].content

Text(p) == Generated(Input(p), var_name(p))

Output(p) == fs[out_path(p)]

Succeeded(p) == pc[p] = "exited" /\ status[p] = 0

\* invocation p has at least the three arguments
HasArgs(p) == Len(argv[p]) >= 4

\* '0, 1, 2, 3, 4, 5, 6, 7, 8, 9, 10, 11,'
ScenarioRow1 ==
    <<"0", ",", " ", "1", ",", " ", "2", ",", " ", "3", ",", " ", "4", ",", " ", "5", ",", " ", "6",
      ",", " ", "7", ",", " ", "8", ",", " ", "9", ",", " ", "1", "0", ",", " ", "1", "1", ",">>

\* '12, 13'
ScenarioRow2 == <<"1", "2", ",", " ", "1", "3">>

\* 'extern const std::size_t foo_len = 14;'
ScenarioSize ==
    <<"e", "x", "t", "e", "r", "n", " ", "c", "o", "n", "s", "t", " ", "s", "t", "d", ":", ":", "s",
      "i", "z", "e", "_", "t", " ", "f", "o", "o", "_", "l", "e", "n", " ", "=", " ", "1", "4",
      ";">>

(* ------------------- properties of the generated text ----------------- *)
\* C1: after a successful run, the comma-separated decimal values between
\* the '{' and the '};' of the output, read in order, are exactly the bytes
\* of the input: same count, same values, same order.
C1_RoundTrip ==
    \A p \in procs :
        Succeeded(p) =>
            /\ Output(p).exists
            /\ ParseValues(ArrayInit(Output(p).content)) = Input(p)

\* a run on more than one row of bytes holding both 0 and 255 has succeeded
C1_Witness ==
    \E p \in procs :
        /\ Succeeded(p)
        /\ Len(Input(p)) > 12
        /\ \E i, j \in 1..Len(Input(p)) : Input(p)[i] = 255 /\ Input(p)[j] = 0

\* C2: a successful run emits exactly one size declaration; it declares the
\* symbol name followed by '_len', and its value is the number of input
\* bytes, which is also the number of values in the array initializer.
C2_Length ==
    \A p \in procs :
        Succeeded(p) =>
            LET text == Output(p).content
                decls == SizeLines(text)
                words == SizeWords(decls[1])
                value == SubSeq(words[3], 1, Len(words[3]) - 1)
            IN /\ Len(decls) = 1
               /\ Len(words) = 3
               /\ words[1] = Chars[var_name(p)] \o LenSuffix
               /\ words[2] = <<"=">>
               /\ words[3][Len(words[3])] = ";"
               /\ IsNumber(value)
               /\ ParseInt(value) = Len(Input(p))
               /\ Len(ParseValues(ArrayInit(text))) = Len(Input(p))

\* a run on an input whose length has two digits has succeeded
C2_Witness ==
    \E p \in procs : Succeeded(p) /\ Len(Input(p)) >= 10 /\ var_name(p) = "b"

\* C6: the initializer values are laid out in input order in rows of 12:
\* there are ceil(n/12) lines of values between the opening-brace line and
\* the '};' line, the k-th holds the k-th group of 12 input bytes (the last
\* one what remains), and any other line between them is blank.  For the 14
\* bytes 0..13 and the symbol foo the two value lines read
\* '0, 1, ..., 11,' and '12, 13', and the size declaration is that of
\* foo_len with the value 14.
C6_Rows ==
    \A p \in procs :
        Succeeded(p) =>
            LET text == Output(p).content
                n == Len(Input(p))
                rows == ValueLines(text)
            IN /\ Len(rows) = Ceil12(n)
               /\ \A k \in 1..Len(rows) :
                     ParseValues(rows[k]) = SubSeq(Input(p), 12 * (k - 1) + 1, Min(12 * k, n))
               /\ (Input(p) = Ramp(0, 14) /\ var_name(p) = "foo") =>
                     /\ Strip(rows[1]) = ScenarioRow1
                     /\ Strip(rows[2]) = ScenarioRow2
                     /\ SizeLines(text) = <<ScenarioSize>>

\* the run on the 14 bytes 0..13 with the symbol foo has succeeded
C6_Witness ==
    \E p \in procs : Succeeded(p) /\ Input(p) = Ramp(0, 14) /\ var_name(p) = "foo"

\* C7: for the empty input a successful run emits an initializer list with
\* nothing but white space between the braces (no value, no comma) and a
\* length constant equal to 0.
C7_Empty ==
    \A p \in procs :
        (Succeeded(p) /\ Input(p) = <<>>) =>
            LET text == Output(p).content
                inner == ArrayInit(text)
                words == SizeWords(SizeLines(text)[1])
            IN /\ \A i \in 1..Len(inner) : inner[i] \in Whitespace
               /\ Len(SizeLines(text)) = 1
               /\ words[3] = <<"0", ";">>

\* the run on the empty input has succeeded
C7_Witness ==
    \E p \in procs : Succeeded(p) /\ Input(p) = <<>> /\ Output(p).content # <<>>

(* ------------------------ properties of a run ------------------------- *)
\* s is a prefix of t
IsPrefix(s, t) == Len(s) <= Len(t) /\ SubSeq(t, 1, Len(s)) = s

\* the input of invocation p can be opened for reading
Readable(p) == fs[in_path(p)].exists /\ in_path(p) \notin noaccess

\* C3: an invocation with fewer than 3 positional arguments opens neither
\* file and leaves the file system as it was; it ends with the usage line on
\* the error stream and exit code 2.
C3_Usage ==
    \A p \in procs :
        ~HasArgs(p) =>
            /\ fs = before
            /\ ~inOpen[p] /\ ~outOpen[p]
            /\ pc[p] \in {"args", "exited"}
            /\ pc[p] = "exited" => (status[p] = 2 /\ stderr[p] = <<Usage>>)

\* an invocation with two positional arguments has exited, an older output
\* file being present
C3_Witness ==
    \E p \in procs :
        /\ Len(argv[p]) = 3
        /\ pc[p] = "exited"
        /\ fs["out.cpp"].exists /\ fs["out.cpp"].content # <<>>

\* C4: when the input cannot be opened, the invocation never opens the output
\* path and leaves the file there as it was (absent, or with its previous
\* content), and it ends with an I/O error and a non-zero exit code; in every
\* run the output is only opened once the input has been read and closed.
C4_UnreadableInput ==
    \A p \in procs :
        HasArgs(p) =>
            /\ ~Readable(p) =>
                  /\ ~outOpen[p]
                  /\ Output(p) = before[out_path(p)]
                  /\ pc[p] \in {"args", "open_in", "exited"}
                  /\ pc[p] = "exited" => (status[p] = 1 /\ stderr[p] = <<"OSError">>)
            /\ outOpen[p] => (~inOpen[p] /\ data[p] = Input(p))

\* a run whose input is missing has failed, an older output file being present
C4_Witness ==
    \E p \in procs :
        /\ HasArgs(p)
        /\ ~fs[in_path(p)].exists
        /\ pc[p] = "exited" /\ status[p] = 1
        /\ Output(p).exists /\ Output(p).content # <<>>

\* C5: after a successful run the output file holds exactly the text
\* generated from the input bytes and the symbol name, whatever the file held
\* before (nothing, an empty file, a longer text, the text of an earlier run
\* or what a failed run left).
C5_Deterministic ==
    \A p \in procs :
        Succeeded(p) => Output(p) = File(Text(p))

\* a second run on the same arguments has succeeded on top of the output of
\* the first
C5_Witness ==
    \E p \in procs :
        /\ Succeeded(p)
        /\ runs[p] = 2
        /\ before[out_path(p)] = File(Text(p))

\* C9 as stated: at every point of a run the output file holds either its
\* content from before the run or the complete generated text.
C9_Atomic ==
    \A p \in procs :
        HasArgs(p) => (Output(p) = before[out_path(p)] \/ Output(p) = File(Text(p)))

\* C9 amended: at every point of a run the output file holds either its
\* content from before the run or a prefix (possibly empty) of the generated
\* text, and after a successful run the complete generated text.
C9_Prefix ==
    \A p \in procs :
        HasArgs(p) =>
            /\ \/ Output(p) = before[out_path(p)]
               \/ Output(p).exists /\ IsPrefix(Output(p).content, Text(p))
            /\ Succeeded(p) => Output(p) = File(Text(p))

\* a run has failed after writing a part of the text
C9_Witness ==
    \E p \in procs :
        /\ HasArgs(p)
        /\ pc[p] = "exited" /\ status[p] = 1
        /\ Output(p).content # <<>>
        /\ Output(p) # before[out_path(p)]
        /\ Len(Output(p).content) < Len(Text(p))

\* C10: an invocation never has both handles open, and none is open once it
\* has ended, whatever the exit path.
C10_Handles ==
    \A p \in procs :
        /\ ~(inOpen[p] /\ outOpen[p])
        /\ pc[p] = "exited" => (~inOpen[p] /\ ~outOpen[p])

\* a run has ended with an error after its output handle had written
C10_Witness ==
    \E p \in procs : pc[p] = "exited" /\ status[p] = 1 /\ pos[p] > 0

(* ------------------- properties of concurrent runs -------------------- *)
Finished == \A p \in procs : Succeeded(p)

\* C8 as stated: once both invocations have finished, with different output
\* paths each file is the text of its invocation, and with the same output
\* path the file is the complete text of exactly one of them.
C8_LastWriterWins ==
    Finished =>
        \A p \in procs :
            \/ Output(p) = File(Text(p))
            \/ \E q \in procs \ {p} : out_path(q) = out_path(p) /\ Output(p) = File(Text(q))

\* C8 amended: once both invocations have finished, with different output
\* paths each file is the text of its invocation; with the same output path
\* the file is the complete text of one of them provided the two never had
\* the path open at the same time, and otherwise it may be a mixture: it is
\* no longer than the longer text and each of its characters is the
\* character of one of the two texts at that offset, or a zero fill byte.
C8_Mixture ==
    Finished =>
        \A p \in procs :
            LET sharers == {q \in procs : out_path(q) = out_path(p)}
                c == Output(p).content
            IN /\ Output(p).exists
               /\ sharers = {p} => c = Text(p)
               /\ ~overlapped => \E q \in sharers : c = Text(q)
               /\ \E q \in sharers : Len(c) <= Len(Text(q))
               /\ \A i \in 1..Len(c) :
                     \/ c[i] = NUL
                     \/ \E q \in sharers : i <= Len(Text(q)) /\ c[i] = Text(q)[i]

\* two invocations on the same output path have finished one after the other
C8_Witness ==
    /\ Finished
    /\ ~overlapped
    /\ \A p, q \in procs : out_path(p) = out_path(q)
    /\ Cardinality(procs) = 2

====
